---- MODULE Spec2Model ----
(***************************************************************************)
(* Model of build_database.py: one batch run of the bar-sales pipeline.    *)
(* A run reads last_update.txt, imports three sales feeds and keeps the    *)
(* records newer than each feed's stored date, rewrites last_update.txt,   *)
(* queries the cocktail API once per drink spelling, de-duplicates the     *)
(* answers and appends everything to the sqlite tables.                    *)
(*                                                                         *)
(* Text (file contents, drink names, API strings) is a sequence of ASCII   *)
(* codes, so that split, slicing and lower-casing are computed and not     *)
(* assumed.  A timestamp is a natural number (the day); NaT is pandas'     *)
(* not-a-time value.                                                       *)
(***************************************************************************)
EXTENDS Integers, Sequences, FiniteSets, Bags, TLC

(* ----------------------------- bounds ---------------------------------- *)
\* latest day a feed record can carry (days are 1..MaxDate, one digit)
MaxDate == 2
\* total number of records over the three feed files
MaxRecords == 2
\* number of runs of the script
MaxRuns == 2

(* ------------------------------ text ----------------------------------- *)
SP == 32
NL == 10
NaT == -1

\* "NYC_date_max", "LON_date_max", "BUDA_date_max"
NYC_date_max == <<78, 89, 67, 95, 100, 97, 116, 101, 95, 109, 97, 120>>
LON_date_max == <<76, 79, 78, 95, 100, 97, 116, 101, 95, 109, 97, 120>>
BUDA_date_max == <<66, 85, 68, 65, 95, 100, 97, 116, 101, 95, 109, 97, 120>>
\* "NaT"
NaTStr == <<78, 97, 84>>

\* str.lower() on one character and on a string
LowerChar(c) == IF c \in 65..90 THEN c + 32 ELSE c
Lower(s) == [i \in DOMAIN s |-> LowerChar(s[i])]

\* str(Timestamp): "<date> <time>", here one date digit, a space and the
\* midnight time digit; str(NaT) is "NaT"
Str(ts) == IF ts = NaT THEN NaTStr ELSE <<48 + ts, SP, 48>>

\* the Timestamp pandas makes of a string it is compared with: "NaT" parses
\* to NaT, a "<date> <time>" string to its day, anything else is refused
Unparsable == -2
ParseTs(v) ==
    IF v = NaTStr THEN NaT
    ELSE IF Len(v) = 3 /\ v[1] \in 48..57 /\ v[2] = SP /\ v[3] = 48 THEN v[1] - 48
    ELSE Unparsable

\* datetime comparison: every comparison with NaT is False
TsGt(a, b) == a # NaT /\ b # NaT /\ a > b

\* position of the first occurrence of c in s, 0 when there is none
RECURSIVE IndexFrom(_, _, _)
IndexFrom(s, c, i) ==
    IF i > Len(s) THEN 0
    ELSE IF s[i] = c THEN i
    ELSE IndexFrom(s, c, i + 1)
IndexOf(s, c) == IndexFrom(s, c, 1)

\* iteration over a text file: the lines, each with its trailing newline
RECURSIVE FileLines(_)
FileLines(text) ==
    IF text = <<>> THEN <<>>
    ELSE LET n == IndexOf(text, NL)
         IN  IF n = 0 THEN <<text>>
             ELSE <<SubSeq(text, 1, n)>> \o FileLines(SubSeq(text, n + 1, Len(text)))

\* line.split(" ", 1) gives two parts only when the line holds a space
SplitOk(line) == IndexOf(line, SP) # 0
SplitKey(line) == SubSeq(line, 1, IndexOf(line, SP) - 1)
\* the value cut at its own first space, as line.split(" ") would give it
SplitValueWord(line) ==
    LET v == SubSeq(line, IndexOf(line, SP) + 1, Len(line))
        n == IndexOf(v, SP)
    IN  IF n = 0 THEN SubSeq(v, 1, Len(v) - 1) ELSE SubSeq(v, 1, n - 1)
\* v = v[:-1]
SplitValue(line) ==
    LET v == SubSeq(line, IndexOf(line, SP) + 1, Len(line))
    IN  SubSeq(v, 1, Len(v) - 1)

\* the loop that fills date_dict: a later line of the same key overwrites
DictOfLines(lines) ==
    LET keys == {SplitKey(lines[i]) : i \in DOMAIN lines}
        last(k) == CHOOSE i \in DOMAIN lines :
                      /\ SplitKey(lines[i]) = k
                      /\ \A j \in DOMAIN lines : SplitKey(lines[j]) = k => j <= i
    IN  [k \in keys |-> SplitValue(lines[last(k)])]
LinesOk(lines) == \A i \in DOMAIN lines : SplitOk(lines[i])
ParseOk(text) == LinesOk(FileLines(text))
ReadDateDict(text) == DictOfLines(FileLines(text))

\* the f-string with london's and budapest's values in each other's place
WatermarkTextSwapped(ny, lon, buda) ==
    NYC_date_max \o <<SP>> \o ny \o <<NL>>
    \o LON_date_max \o <<SP>> \o buda \o <<NL>>
    \o BUDA_date_max \o <<SP>> \o lon \o <<NL>>
\* the f-string written to last_update.txt
WatermarkText(ny, lon, buda) ==
    NYC_date_max \o <<SP>> \o ny \o <<NL>>
    \o LON_date_max \o <<SP>> \o lon \o <<NL>>
    \o BUDA_date_max \o <<SP>> \o buda \o <<NL>>

(* ------------------------------ feeds ---------------------------------- *)
Sources == {"budapest", "london", "new york"}
WmKey(s) ==
    CASE s = "budapest" -> BUDA_date_max
      [] s = "london" -> LON_date_max
      [] s = "new york" -> NYC_date_max

\* drink spellings of the feeds: "Mj", "mj" (one drink, two spellings), "gt";
\* each bar's till has its own spelling
Drinks == {<<77, 106>>, <<109, 106>>, <<103, 116>>}
DrinksOf(s) ==
    CASE s = "budapest" -> {<<77, 106>>}
      [] s = "london" -> {<<109, 106>>}
      [] s = "new york" -> {<<103, 116>>}
Prices == {5}
Dates == 1..MaxDate
FeedRecord(s) == [dateOfSale : Dates, drink : DrinksOf(s), price : Prices]

\* df.loc[df["dateOfSale"] > date_dict[key]] after the bar column is set
WithBar(df, bar) ==
    [i \in DOMAIN df |->
        [dateOfSale |-> df[i].dateOfSale, drink |-> df[i].drink,
         price |-> df[i].price, bar |-> bar]]
\* the filter with >= in place of >
FilterNotOlder(df, v) ==
    SelectSeq(df, LAMBDA r : ParseTs(v) # NaT /\ r.dateOfSale >= ParseTs(v))
FilterNewer(df, v) == SelectSeq(df, LAMBDA r : TsGt(r.dateOfSale, ParseTs(v)))

\* str(df.dateOfSale.max()): the maximum of an empty column is NaT
RECURSIVE SeqMax(_, _)
SeqMax(df, i) ==
    IF i = 0 THEN NaT
    ELSE LET m == SeqMax(df, i - 1)
         IN  IF m = NaT \/ df[i].dateOfSale > m THEN df[i].dateOfSale ELSE m
\* the date of the last row in place of the maximum
LastDateStr(df) == Str(IF df = <<>> THEN NaT ELSE df[Len(df)].dateOfSale)
MaxDateStr(df) == Str(SeqMax(df, Len(df)))
\* (a feed file without any row can give an object column, whose maximum
\* prints as "nan"; pandas reads that back as NaT as well)

(* --------------------------- sales frame -------------------------------- *)
\* pd.concat(..., ignore_index=True), reset_index -> saleID, price as float,
\* then applymap(lower) on every str cell (the drink; the bar names are
\* lower-case as the script writes them)
SaleRow(r, id) ==
    [saleID |-> id, dateOfSale |-> r.dateOfSale, drink |-> Lower(r.drink),
     price |-> r.price, bar |-> r.bar]
GlobalFrame(buda, lon, ny) ==
    LET all == buda \o lon \o ny
    IN  [i \in DOMAIN all |-> SaleRow(all[i], i - 1)]

\* list(set(london drinks + new york drinks + budapest drinks)): the
\* spellings of the three filtered frames, as they stand in the feeds
DrinkSet(df) == {df[i].drink : i \in DOMAIN df}
\* the list without the drinks of the budapest frame
MasterDrinksOfTwo(buda, lon, ny) == DrinkSet(lon) \cup DrinkSet(ny)
MasterDrinks(buda, lon, ny) == DrinkSet(lon) \cup DrinkSet(ny) \cup DrinkSet(buda)

(* --------------------------- cocktail API ------------------------------- *)
\* the name the API files a drink under: the spelling with a capital
ApiName(drink) == [Lower(drink) EXCEPT ![1] = @ - 32]
ApiRow(drink, cat, mod) ==
    [idDrink |-> <<49>>, strDrink |-> ApiName(drink), strCategory |-> cat,
     strIBA |-> <<73>>, strAlcoholic |-> <<65>>, strGlass |-> <<71>>,
     dateModified |-> Str(mod), strInstructions |-> <<120>>]
\* an answer with rows: the drink as first filed (category "C"), the same
\* row modified since, and an older variant of it in category "S"
Candidates(drink) ==
    { <<ApiRow(drink, <<67>>, 1), ApiRow(drink, <<67>>, 2), ApiRow(drink, <<83>>, 1)>> }
\* what a GET can come to: no answer, an error page, {"drinks": null}, rows
Responses(drink) ==
    { [transport |-> "error", status |-> 0, body |-> "none", drinks |-> <<>>],
      [transport |-> "ok", status |-> 500, body |-> "malformed", drinks |-> <<>>],
      [transport |-> "ok", status |-> 200, body |-> "null", drinks |-> <<>>] }
    \cup { [transport |-> "ok", status |-> 200, body |-> "list", drinks |-> c] :
              c \in Candidates(drink) }

\* pd.DataFrame() and pd.DataFrame(None) have neither rows nor columns
EmptyFrame == [hasColumns |-> FALSE, rows |-> <<>>]
cocktail_extract(resp) ==
    IF resp.transport = "error" THEN EmptyFrame
    ELSE IF resp.body = "malformed" THEN EmptyFrame
    ELSE IF resp.body = "null" THEN EmptyFrame
    ELSE [hasColumns |-> TRUE, rows |-> resp.drinks]

\* df[["idDrink", ..., "dateModified"]]
SelectColumns(rows) ==
    [i \in DOMAIN rows |->
        [idDrink |-> rows[i].idDrink, strDrink |-> rows[i].strDrink,
         strCategory |-> rows[i].strCategory, strIBA |-> rows[i].strIBA,
         strAlcoholic |-> rows[i].strAlcoholic, strGlass |-> rows[i].strGlass,
         dateModified |-> rows[i].dateModified]]

\* pd.concat(dfs, ignore_index=True)
RECURSIVE ConcatFrames(_, _)
ConcatFrames(frames, i) ==
    IF i = 0 THEN <<>> ELSE ConcatFrames(frames, i - 1) \o frames[i]

\* order of two strings
RECURSIVE StrLessFrom(_, _, _)
StrLessFrom(a, b, i) ==
    IF i > Len(b) THEN FALSE
    ELSE IF i > Len(a) THEN TRUE
    ELSE IF a[i] # b[i] THEN a[i] < b[i]
    ELSE StrLessFrom(a, b, i + 1)
StrLess(a, b) == StrLessFrom(a, b, 1)

\* sort_values(by="dateModified", ascending=False), on the strings
RECURSIVE InsertDesc(_, _)
InsertDesc(sorted, r) ==
    IF sorted = <<>> THEN <<r>>
    ELSE IF StrLess(Head(sorted).dateModified, r.dateModified)
         THEN <<r>> \o sorted
         ELSE <<Head(sorted)>> \o InsertDesc(Tail(sorted), r)
RECURSIVE SortDesc(_, _)
SortDesc(rows, i) ==
    IF i = 0 THEN <<>> ELSE InsertDesc(SortDesc(rows, i - 1), rows[i])

\* drop_duplicates(subset=[six columns], keep="first")
DupKey(r) ==
    <<r.idDrink, r.strDrink, r.strCategory, r.strIBA, r.strAlcoholic, r.strGlass>>
RECURSIVE DropDuplicates(_, _)
DropDuplicates(rows, i) ==
    IF i = 0 THEN <<>>
    ELSE LET kept == DropDuplicates(rows, i - 1)
         IN  IF \E j \in 1..(i - 1) : DupKey(rows[j]) = DupKey(rows[i])
             THEN kept
             ELSE Append(kept, rows[i])

\* pd.to_datetime on dateModified, then applymap(lower) on the str cells
CleanRow(r) ==
    [idDrink |-> Lower(r.idDrink), strDrink |-> Lower(r.strDrink),
     strCategory |-> Lower(r.strCategory), strIBA |-> Lower(r.strIBA),
     strAlcoholic |-> Lower(r.strAlcoholic), strGlass |-> Lower(r.strGlass),
     dateModified |-> ParseTs(r.dateModified)]
CocktailsFrame(frames) ==
    LET all == ConcatFrames(frames, Len(frames))
        srt == SortDesc(all, Len(all))
        ded == DropDuplicates(srt, Len(srt))
    IN  [i \in DOMAIN ded |-> CleanRow(ded[i])]

(* ---------------------------- bar stock --------------------------------- *)
\* data/bar_data.csv: the bar, the glass and the stock as "<n> glasses"
BarData ==
    << [bar |-> <<76>>, glass_type |-> <<72>>, stock |-> <<51, SP, 103>>] >>
\* str.extract("(\d+)") and astype(int): the first run of digits
RECURSIVE DigitsFrom(_, _, _)
DigitsFrom(s, i, acc) ==
    IF i > Len(s) \/ s[i] \notin 48..57 THEN acc
    ELSE DigitsFrom(s, i + 1, acc * 10 + (s[i] - 48))
FirstDigit(s) == CHOOSE i \in DOMAIN s :
    s[i] \in 48..57 /\ \A j \in 1..(i - 1) : s[j] \notin 48..57
ExtractInt(s) == DigitsFrom(s, FirstDigit(s), 0)
BarStockFrame(rows) ==
    [i \in DOMAIN rows |->
        [stockID |-> i - 1, bar |-> Lower(rows[i].bar),
         glassType |-> Lower(rows[i].glass_type), stock |-> ExtractInt(rows[i].stock)]]

(* ------------------------------ tables ---------------------------------- *)
\* a table is the bag of its rows; to_sql(if_exists="append") adds the rows
\* of the frame to it
RECURSIVE FrameRows(_, _)
FrameRows(df, i) ==
    IF i = 0 THEN EmptyBag ELSE FrameRows(df, i - 1) (+) SetToBag({df[i]})
\* to_sql(if_exists="replace"): the table is dropped and made of the frame
to_sql_replace(table, df) == FrameRows(df, Len(df))
to_sql_append(table, df) == table (+) FrameRows(df, Len(df))

(* ------------------------------ state ----------------------------------- *)
VARIABLES
    feed,           \* the three sales files, by bar: the parsed data rows
    wmFile,         \* last_update.txt: whether it exists, and its text
    global_sales,   \* sqlite table global_sales
    bar_stock,      \* sqlite table bar_stock
    cocktails,      \* sqlite table cocktails
    pc,             \* the statement the script is at; "idle" between runs
    date_dict,
    bar_stock_df,
    budapest_df, london_df, new_york_df,
    budapest_max_date, london_max_date, ny_max_date,
    global_df,
    master_drinks,
    todo,           \* the drinks of master_drinks the loop has yet to visit
    dfs,
    counter,
    queried,        \* the drinks the API was asked for, in order
    cocktails_df,
    run,            \* runs started so far
    hist            \* the last two runs: what each started from, how it ended

env == <<feed>>
db == <<global_sales, bar_stock, cocktails>>
frames == <<bar_stock_df, budapest_df, london_df, new_york_df,
            budapest_max_date, london_max_date, ny_max_date>>
lookup == <<global_df, master_drinks, todo, dfs, counter, queried, cocktails_df>>
locals == <<date_dict, frames, lookup>>
vars == <<env, wmFile, db, pc, locals, run, hist>>

\* stored dates the first run can find in last_update.txt
InitDates == {0}

Init ==
    /\ feed = [s \in Sources |-> <<>>]
    /\ \/ wmFile = [exists |-> FALSE, text |-> <<>>]
       \/ \E w \in InitDates :
            wmFile = [exists |-> TRUE, text |-> WatermarkText(Str(w), Str(w), Str(w))]
    /\ global_sales = EmptyBag
    /\ bar_stock = EmptyBag
    /\ cocktails = EmptyBag
    /\ pc = "idle"
    /\ date_dict = <<>>
    /\ bar_stock_df = <<>>
    /\ budapest_df = <<>> /\ london_df = <<>> /\ new_york_df = <<>>
    /\ budapest_max_date = <<>> /\ london_max_date = <<>> /\ ny_max_date = <<>>
    /\ global_df = <<>>
    /\ master_drinks = {}
    /\ todo = {}
    /\ dfs = <<>>
    /\ counter = 0
    /\ queried = <<>>
    /\ cocktails_df = <<>>
    /\ run = 0
    /\ hist = <<>>

\* the process ends: its variables are gone
ClearLocals ==
    /\ date_dict' = <<>>
    /\ bar_stock_df' = <<>>
    /\ budapest_df' = <<>> /\ london_df' = <<>> /\ new_york_df' = <<>>
    /\ budapest_max_date' = <<>> /\ london_max_date' = <<>> /\ ny_max_date' = <<>>
    /\ global_df' = <<>>
    /\ master_drinks' = {}
    /\ todo' = {}
    /\ dfs' = <<>>
    /\ counter' = 0
    /\ queried' = <<>>
    /\ cocktails_df' = <<>>

\* the record of the run under way, or of the last one
Cur == Len(hist)

\* an uncaught exception ends the run; how notes what raised it: a statement
\* of the script on its data ("script"), a failed API answer ("lookup"), an
\* unreadable feed ("feed") or stock file ("stock"), the database
\* ("database"), a kill ("kill")
RaiseBy(how) ==
    /\ pc' = "idle"
    /\ ClearLocals
    /\ hist' = [hist EXCEPT ![Cur].outcome = "failed", ![Cur].raisedBy = how]
    /\ UNCHANGED run

TotalRecords == Len(feed["budapest"]) + Len(feed["london"]) + Len(feed["new york"])

\* a bar appends a sale to its file between two runs
Deliver(s, r) ==
    /\ pc = "idle"
    /\ run < MaxRuns
    /\ TotalRecords < MaxRecords
    /\ feed' = [feed EXCEPT ![s] = Append(@, r)]
    /\ UNCHANGED <<wmFile, db, pc, locals, run, hist>>

\* the date last_update.txt holds for bar s; Unparsable when the file, the
\* line or a readable value is missing
DateIn(dict, key) == IF key \in DOMAIN dict THEN ParseTs(dict[key]) ELSE Unparsable
Stored(file, s) ==
    IF file.exists /\ ParseOk(file.text)
    THEN DateIn(ReadDateDict(file.text), WmKey(s))
    ELSE Unparsable
StoredDates(file) ==
    IF file.exists /\ ParseOk(file.text)
    THEN LET dict == ReadDateDict(file.text)
         IN  [s \in Sources |-> DateIn(dict, WmKey(s))]
    ELSE [s \in Sources |-> Unparsable]
IsDate(x) == x \in Nat

\* python build_database.py
StartRun ==
    /\ pc = "idle"
    /\ run < MaxRuns
    /\ run' = run + 1
    /\ hist' = (IF Len(hist) = 2 THEN Tail(hist) ELSE hist)
                \o <<[wm0 |-> wmFile, dates0 |-> StoredDates(wmFile),
                      feed0 |-> feed, outcome |-> "running",
                      raisedBy |-> "", filtered |-> FALSE,
                      new |-> [s \in Sources |-> <<>>], sold |-> <<>>]>>
    /\ pc' = "read_dates"
    /\ UNCHANGED <<env, wmFile, db, locals>>

\* lines 98-104: open("last_update.txt") and fill date_dict
ReadDates ==
    /\ pc = "read_dates"
    /\ \/ /\ ~wmFile.exists \/ ~ParseOk(wmFile.text)
          /\ RaiseBy("script")
          /\ UNCHANGED <<env, wmFile, db>>
       \/ /\ wmFile.exists /\ ParseOk(wmFile.text)
          /\ date_dict' = ReadDateDict(wmFile.text)
          /\ pc' = "bar_stock"
          /\ UNCHANGED <<env, wmFile, db, frames, lookup, run, hist>>

\* lines 106-116: the bar stock file
ImportBarStock ==
    /\ pc = "bar_stock"
    /\ bar_stock_df' = BarStockFrame(BarData)
    /\ pc' = "budapest"
    /\ UNCHANGED <<env, wmFile, db, date_dict, budapest_df, london_df, new_york_df,
                   budapest_max_date, london_max_date, ny_max_date, lookup, run, hist>>

\* a feed file that cannot be read, a date_dict without the key, a stored
\* value that is no date: each raises
CanFilter(key) == key \in DOMAIN date_dict /\ ParseTs(date_dict[key]) # Unparsable

\* lines 121-134
ImportBudapest ==
    /\ pc = "budapest"
    /\ \/ /\ CanFilter(BUDA_date_max)
          /\ budapest_df' = FilterNewer(WithBar(feed["budapest"], "budapest"),
                                        date_dict[BUDA_date_max])
          /\ budapest_max_date' = MaxDateStr(budapest_df')
          /\ pc' = "london"
          /\ UNCHANGED <<env, wmFile, db, date_dict, bar_stock_df, london_df, new_york_df,
                         london_max_date, ny_max_date, lookup, run, hist>>
       \/ /\ ~CanFilter(BUDA_date_max)
          /\ RaiseBy("script")
          /\ UNCHANGED <<env, wmFile, db>>

\* lines 136-147
ImportLondon ==
    /\ pc = "london"
    /\ \/ /\ CanFilter(LON_date_max)
          /\ london_df' = FilterNewer(WithBar(feed["london"], "london"),
                                      date_dict[LON_date_max])
          /\ london_max_date' = MaxDateStr(london_df')
          /\ pc' = "new_york"
          /\ UNCHANGED <<env, wmFile, db, date_dict, bar_stock_df, budapest_df, new_york_df,
                         budapest_max_date, ny_max_date, lookup, run, hist>>
       \/ /\ ~CanFilter(LON_date_max)
          /\ RaiseBy("script")
          /\ UNCHANGED <<env, wmFile, db>>

\* lines 149-160
ImportNewYork ==
    /\ pc = "new_york"
    /\ \/ /\ CanFilter(NYC_date_max)
          /\ new_york_df' = FilterNewer(WithBar(feed["new york"], "new york"),
                                        date_dict[NYC_date_max])
          /\ ny_max_date' = MaxDateStr(new_york_df')
          /\ pc' = "open_dates"
          /\ hist' = [hist EXCEPT ![Cur].filtered = TRUE,
                                   ![Cur].new = [s \in Sources |->
                                       CASE s = "budapest" -> budapest_df
                                         [] s = "london" -> london_df
                                         [] s = "new york" -> new_york_df']]
          /\ UNCHANGED <<env, wmFile, db, date_dict, bar_stock_df, budapest_df, london_df,
                         budapest_max_date, london_max_date, lookup, run>>
       \/ /\ ~CanFilter(NYC_date_max)
          /\ RaiseBy("script")
          /\ UNCHANGED <<env, wmFile, db>>

\* a file is missing or corrupt: read_csv raises, on the stock file or on
\* the feed of a bar
ReadFailure ==
    /\ pc \in {"bar_stock", "budapest", "london", "new_york"}
    /\ RaiseBy(IF pc = "bar_stock" THEN "stock" ELSE "feed")
    /\ UNCHANGED <<env, wmFile, db>>

\* line 163: open("last_update.txt", "w") creates or empties the file
OpenDates ==
    /\ pc = "open_dates"
    /\ wmFile' = [exists |-> TRUE, text |-> <<>>]
    /\ pc' = "write_dates"
    /\ UNCHANGED <<env, db, locals, run, hist>>

\* lines 164-166: the three lines are written and the file is closed
WriteDates ==
    /\ pc = "write_dates"
    /\ wmFile' = [exists |-> TRUE,
                  text |-> WatermarkText(ny_max_date, london_max_date, budapest_max_date)]
    /\ pc' = "reread_dates"
    /\ UNCHANGED <<env, db, locals, run, hist>>

\* the process is killed while the file is open
KilledWriting ==
    /\ pc = "write_dates"
    /\ RaiseBy("kill")
    /\ UNCHANGED <<env, wmFile, db>>

\* lines 168-173
RereadDates ==
    /\ pc = "reread_dates"
    /\ date_dict' = ReadDateDict(wmFile.text)
    /\ pc' = "concat"
    /\ UNCHANGED <<env, wmFile, db, frames, lookup, run, hist>>

\* lines 175-191: global_df and master_drinks
Concat ==
    /\ pc = "concat"
    /\ global_df' = GlobalFrame(budapest_df, london_df, new_york_df)
    /\ master_drinks' = MasterDrinks(budapest_df, london_df, new_york_df)
    /\ todo' = master_drinks'
    /\ dfs' = <<>>
    /\ counter' = 1
    /\ pc' = "lookup"
    /\ UNCHANGED <<env, wmFile, db, date_dict, frames, queried, cocktails_df, run, hist>>

\* lines 196-214, one turn of the loop: the API is asked for one drink, in
\* the order the set happens to give; selecting the columns of a frame that
\* has none raises KeyError
LookupDrink(drink, resp) ==
    /\ pc = "lookup"
    /\ drink \in todo
    /\ LET df == cocktail_extract(resp)
       IN  \/ /\ df.hasColumns
              /\ dfs' = Append(dfs, SelectColumns(df.rows))
              /\ todo' = todo \ {drink}
              /\ counter' = counter + 1
              /\ queried' = Append(queried, drink)
              /\ UNCHANGED <<env, wmFile, db, pc, date_dict, frames, global_df,
                             master_drinks, cocktails_df, run, hist>>
           \/ /\ ~df.hasColumns
              /\ RaiseBy("lookup")
              /\ UNCHANGED <<env, wmFile, db>>

\* lines 216-234: pd.concat raises on an empty list
CombineCocktails ==
    /\ pc = "lookup"
    /\ todo = {}
    /\ \/ /\ dfs # <<>>
          /\ cocktails_df' = CocktailsFrame(dfs)
          /\ pc' = "create_tables"
          /\ UNCHANGED <<env, wmFile, db, date_dict, frames, global_df, master_drinks,
                         todo, dfs, counter, queried, run, hist>>
       \/ /\ dfs = <<>>
          /\ RaiseBy("script")
          /\ UNCHANGED <<env, wmFile, db>>

\* data_tables.sql, the bootstrap script: it creates the tables that do not
\* exist yet and leaves the rows of those that do
data_tables_sql(tables) == tables

\* line 237: execute_sql_script logs a failure of the script and returns
CreateTables ==
    /\ pc = "create_tables"
    /\ LET tables == data_tables_sql(<<global_sales, bar_stock, cocktails>>)
       IN  /\ global_sales' = tables[1]
           /\ bar_stock' = tables[2]
           /\ cocktails' = tables[3]
    /\ pc' = "to_sql_sales"
    /\ UNCHANGED <<env, wmFile, locals, run, hist>>

\* lines 245-247: global_df.to_sql("global_sales", if_exists="append")
WriteSales ==
    /\ pc = "to_sql_sales"
    /\ global_sales' = to_sql_append(global_sales, global_df)
    /\ hist' = [hist EXCEPT ![Cur].sold = global_df]
    /\ pc' = "to_sql_stock"
    /\ UNCHANGED <<env, wmFile, bar_stock, cocktails, locals, run>>

\* lines 248-250: bar_stock_df.to_sql("bar_stock", if_exists="append")
WriteBarStock ==
    /\ pc = "to_sql_stock"
    /\ bar_stock' = to_sql_append(bar_stock, bar_stock_df)
    /\ pc' = "to_sql_cocktails"
    /\ UNCHANGED <<env, wmFile, global_sales, cocktails, locals, run, hist>>

\* line 251: cocktails_df.to_sql("cocktails", if_exists="append")
WriteCocktails ==
    /\ pc = "to_sql_cocktails"
    /\ cocktails' = to_sql_append(cocktails, cocktails_df)
    /\ pc' = "poc_tables"
    /\ UNCHANGED <<env, wmFile, global_sales, bar_stock, locals, run, hist>>

\* the database refuses a to_sql (locked, unavailable): the call raises and
\* none of its rows are stored
StoreFailure ==
    /\ pc \in {"to_sql_sales", "to_sql_stock", "to_sql_cocktails"}
    /\ RaiseBy("database")
    /\ UNCHANGED <<env, wmFile, db>>

\* lines 254-257: the run ends
Finish ==
    /\ pc = "poc_tables"
    /\ pc' = "idle"
    /\ ClearLocals
    /\ hist' = [hist EXCEPT ![Cur].outcome = "ok"]
    /\ UNCHANGED <<env, wmFile, db, run>>

Next ==
    \/ /\ pc = "idle"
       /\ \E s \in Sources : \E r \in FeedRecord(s) : Deliver(s, r)
    \/ StartRun
    \/ ReadDates
    \/ ImportBarStock
    \/ ImportBudapest
    \/ ImportLondon
    \/ ImportNewYork
    \/ ReadFailure
    \/ OpenDates
    \/ WriteDates
    \/ KilledWriting
    \/ RereadDates
    \/ Concat
    \/ /\ pc = "lookup"
       /\ \E drink \in todo : \E resp \in Responses(drink) : LookupDrink(drink, resp)
    \/ CombineCocktails
    \/ CreateTables
    \/ WriteSales
    \/ WriteBarStock
    \/ WriteCocktails
    \/ StoreFailure
    \/ Finish

Spec == Init /\ [][Next]_vars

(* ------------------- last_update.txt, written and read ------------------ *)
\* the strings a run can hold as a bar's newest date when it comes to line
\* 163: str() of a Timestamp, or of NaT
MaxDateStrings == {Str(d) : d \in InitDates \cup Dates \cup {NaT}}

\* the script at line 163, with any three such strings, over a file that is
\* missing or holds earlier dates
InitWriteRead ==
    /\ feed = [s \in Sources |-> <<>>]
    /\ \/ wmFile = [exists |-> FALSE, text |-> <<>>]
       \/ \E w \in InitDates :
            wmFile = [exists |-> TRUE, text |-> WatermarkText(Str(w), Str(w), Str(w))]
    /\ global_sales = EmptyBag
    /\ bar_stock = EmptyBag
    /\ cocktails = EmptyBag
    /\ pc = "open_dates"
    /\ date_dict = <<>>
    /\ bar_stock_df = <<>>
    /\ budapest_df = <<>> /\ london_df = <<>> /\ new_york_df = <<>>
    /\ budapest_max_date \in MaxDateStrings
    /\ london_max_date \in MaxDateStrings
    /\ ny_max_date \in MaxDateStrings
    /\ global_df = <<>>
    /\ master_drinks = {}
    /\ todo = {}
    /\ dfs = <<>>
    /\ counter = 0
    /\ queried = <<>>
    /\ cocktails_df = <<>>
    /\ run = 0
    /\ hist = <<>>

\* lines 163-173
NextWriteRead ==
    \/ OpenDates
    \/ WriteDates
    \/ RereadDates

SpecWriteRead == InitWriteRead /\ [][NextWriteRead]_vars

(* ---------------------------- properties -------------------------------- *)
Range(f) == {f[i] : i \in DOMAIN f}
\* a feed record as the sales table shows it, and a sales row without its id
Normal(r, s) ==
    [dateOfSale |-> r.dateOfSale, drink |-> Lower(r.drink), price |-> r.price, bar |-> s]
Sale(row) ==
    [dateOfSale |-> row.dateOfSale, drink |-> row.drink, price |-> row.price,
     bar |-> row.bar]
SoldOf(h, s) == {Sale(row) : row \in {x \in Range(h.sold) : x.bar = s}}
\* the records of feed f newer than date w
NewerIn(f, w) == {i \in DOMAIN f : f[i].dateOfSale > w}
Ended(h) == h.outcome # "running"
\* the run went to its end, or a statement of the script raised on its data
OnItsOwn(h) == Ended(h) /\ h.raisedBy \in {"", "script"}

\* the frame of bar s once its import statement has run
Imported(s) ==
    CASE s = "budapest" -> pc \notin {"idle", "read_dates", "bar_stock", "budapest"}
      [] s = "london" ->
            pc \notin {"idle", "read_dates", "bar_stock", "budapest", "london"}
      [] s = "new york" ->
            pc \notin {"idle", "read_dates", "bar_stock", "budapest", "london", "new_york"}
FrameOf(s) ==
    CASE s = "budapest" -> budapest_df
      [] s = "london" -> london_df
      [] s = "new york" -> new_york_df

\* C1: until the sales, stock and cocktails writes of a run have all been
\* made, last_update.txt is as the run found it, and a run that fails leaves
\* it as it found it.
C1_DatesKeptUntilStored ==
    /\ pc \notin {"idle", "poc_tables"} => wmFile = hist[Cur].wm0
    /\ (pc = "idle" /\ hist # <<>> /\ hist[Cur].outcome = "failed")
          => wmFile = hist[Cur].wm0

\* C2: the database refuses the sales of a run, so the run fails after
\* filtering with no sale stored; the next run, on the same feeds and ending
\* on its own, has stored exactly the records newer than the dates the
\* failed run started from, once each.
C2_RerunRecovers ==
    ( /\ pc = "idle" /\ Len(hist) = 2
      /\ hist[1].outcome = "failed" /\ hist[1].filtered /\ hist[1].sold = <<>>
      /\ hist[1].raisedBy = "database"
      /\ hist[2].feed0 = hist[1].feed0
      /\ OnItsOwn(hist[2]) )
    => \A s \in Sources :
          LET f == hist[1].feed0[s]
              new == NewerIn(f, hist[1].dates0[s])
          IN  /\ SoldOf(hist[2], s) = {Normal(f[i], s) : i \in new}
              /\ Cardinality({j \in DOMAIN hist[2].sold : hist[2].sold[j].bar = s})
                    = Cardinality(new)

GrowsLater(f1, f2) ==
    \A i \in DOMAIN f2 : \A j \in DOMAIN f1 :
        i > Len(f1) => f2[i].dateOfSale > f1[j].dateOfSale
\* C3: of two runs in a row, the first successful and the second ending on
\* its own, over feeds that grow by later sales only, the sales stored for a bar by one and by the other are
\* disjoint and together are the records of the bar's feed newer than the
\* date the first run started from.
C3_TwoRunsPartition ==
    ( /\ pc = "idle" /\ Len(hist) = 2
      /\ hist[1].outcome = "ok" /\ OnItsOwn(hist[2])
      /\ \A s \in Sources : /\ IsDate(hist[1].dates0[s])
                            /\ GrowsLater(hist[1].feed0[s], hist[2].feed0[s]) )
    => \A s \in Sources :
          LET f == hist[2].feed0[s]
          IN  /\ SoldOf(hist[1], s) \cap SoldOf(hist[2], s) = {}
              /\ SoldOf(hist[1], s) \cup SoldOf(hist[2], s)
                    = {Normal(f[i], s) : i \in NewerIn(f, hist[1].dates0[s])}

IsNewer(r, w) == IsDate(w) /\ r.dateOfSale > w
\* C4: once a bar's feed is imported, its frame holds exactly the records of
\* the feed dated strictly after the bar's stored date, each once: a record
\* dated on the stored date is left out, no later record is left out.
C4_FilterStrictlyNewer ==
    \A s \in Sources :
        Imported(s) =>
            \A w \in {hist[Cur].dates0[s]} : \A f \in {WithBar(feed[s], s)} :
                /\ \A i \in DOMAIN f : f[i] \in Range(FrameOf(s)) <=> IsNewer(f[i], w)
                /\ Range(FrameOf(s)) \subseteq Range(f)
                /\ Len(FrameOf(s)) = Cardinality({i \in DOMAIN f : IsNewer(f[i], w)})
\* a feed with a record on the stored date and a later one has been imported
C4_Witness ==
    \E s \in Sources :
        /\ Imported(s)
        /\ \E i, j \in DOMAIN feed[s] :
              /\ feed[s][i].dateOfSale = hist[Cur].dates0[s]
              /\ feed[s][j].dateOfSale > hist[Cur].dates0[s]
        /\ Len(FrameOf(s)) = 1

\* C5: after a successful run that found nothing new for a bar, the bar's
\* stored date is what it was before the run.
C5_NothingNewKeepsDate ==
    (pc = "idle" /\ hist # <<>> /\ hist[Cur].outcome = "ok")
    => \A s \in Sources :
          hist[Cur].new[s] = <<>> => Stored(wmFile, s) = hist[Cur].dates0[s]

\* C6: a run that ends on its own leaves for every bar a stored value that
\* is a date, and no earlier than the date stored before the run.
C6_DatesNeverGoBack ==
    (pc = "idle" /\ hist # <<>> /\ OnItsOwn(hist[Cur]))
    => \A s \in Sources :
          IsDate(hist[Cur].dates0[s])
             => /\ IsDate(Stored(wmFile, s))
                /\ Stored(wmFile, s) >= hist[Cur].dates0[s]

\* C7: no run is ended by a lookup that failed or came back without rows.
C7_LookupFailureNotFatal ==
    \A i \in DOMAIN hist : hist[i].raisedBy # "lookup"

Asked(key) == {j \in DOMAIN queried : Lower(queried[j]) = key}
\* C8: when the lookup loop is through, the API has been asked exactly once
\* for the lower-cased drink of every row of the sales frame.
C8_OneLookupPerKey ==
    (pc = "lookup" /\ todo = {})
    => \A i \in DOMAIN global_df : Cardinality(Asked(global_df[i].drink)) = 1

\* C9: the cocktails frame a run writes has at most one row per drink name.
C9_OneRowPerKey ==
    pc = "to_sql_cocktails"
    => \A i, j \in DOMAIN cocktails_df :
          cocktails_df[i].strDrink = cocktails_df[j].strDrink => i = j

\* C10: a row of the cocktails frame is at least as recently modified as
\* every row the API returned for the same drink name.
C10_NewestRowKept ==
    pc = "to_sql_cocktails"
    => \A i \in DOMAIN cocktails_df : \A f \in DOMAIN dfs : \A k \in DOMAIN dfs[f] :
          Lower(dfs[f][k].strDrink) = cocktails_df[i].strDrink
             => ParseTs(dfs[f][k].dateModified) <= cocktails_df[i].dateModified

\* last_update.txt holds no date for bar s: there is no file, or no line of
\* the bar's key in it
NoEntry(file, s) ==
    \/ ~file.exists
    \/ ParseOk(file.text) /\ WmKey(s) \notin DOMAIN ReadDateDict(file.text)
\* C11: a run that finds no stored date for a bar (no last_update.txt, or no
\* line for the bar) is not stopped by that: left to itself it filters, and
\* it takes in every record of the bar's feed.
C11_NoDateIngestsAll ==
    (pc = "idle" /\ hist # <<>> /\ OnItsOwn(hist[Cur]))
    => \A s \in Sources :
          NoEntry(hist[Cur].wm0, s)
             => /\ hist[Cur].filtered
                /\ hist[Cur].new[s] = WithBar(hist[Cur].feed0[s], s)

\* every run so far went to its end
AllRunsOk == run = Len(hist) /\ \A i \in DOMAIN hist : hist[i].outcome = "ok"
\* C12: after successful runs only, the bar_stock table holds the rows of the
\* stock file as the last run read it, each once: rows of earlier runs are
\* replaced, they do not add up.
C12_StockReplaced ==
    (pc = "idle" /\ hist # <<>> /\ AllRunsOk)
    => bar_stock = FrameRows(BarStockFrame(BarData), Len(BarData))

\* the sale dates of the rows a run stored for bar s
SoldDates(h, s) == {row.dateOfSale : row \in {x \in Range(h.sold) : x.bar = s}}
\* C13: after a successful run that stored at least one sale of a bar, the
\* bar's stored date is the latest sale date among the sales the run stored
\* for it, and every sale the run stored is dated after the date its bar had
\* before the run.
C13_DateIsNewestStored ==
    (pc = "idle" /\ hist # <<>> /\ hist[Cur].outcome = "ok")
    => /\ \A now \in {StoredDates(wmFile)} : \A s \in Sources :
             SoldDates(hist[Cur], s) # {}
                => /\ now[s] \in SoldDates(hist[Cur], s)
                   /\ \A e \in SoldDates(hist[Cur], s) : e <= now[s]
       /\ \A row \in Range(hist[Cur].sold) : IsNewer(row, hist[Cur].dates0[row.bar])
\* a successful run stored a sale of a bar whose feed also held a sale dated
\* on or before the bar's date
C13_Witness ==
    /\ pc = "idle" /\ hist # <<>> /\ hist[Cur].outcome = "ok"
    /\ \E s \in Sources :
          /\ SoldDates(hist[Cur], s) # {}
          /\ \E i \in DOMAIN hist[Cur].feed0[s] :
                hist[Cur].feed0[s][i].dateOfSale <= hist[Cur].dates0[s]
          /\ Stored(wmFile, s) > hist[Cur].dates0[s]

\* C14: whenever a step adds a row to the global_sales table, the running
\* script has asked the API for the row's drink before; so no sale is ever
\* in the table whose drink was not looked up by the run that stored it.
C14_StoredSalesWereAsked ==
    [][ \A row \in BagToSet(global_sales') :
            CopiesIn(row, global_sales') > CopiesIn(row, global_sales)
               => Asked(row.drink) # {} ]_vars
\* a run has just stored sales of two bars, each drink asked for
C14_Witness ==
    /\ pc = "to_sql_stock"
    /\ \E r1, r2 \in BagToSet(global_sales) :
          /\ r1.bar # r2.bar
          /\ r1 \in Range(hist[Cur].sold) /\ r2 \in Range(hist[Cur].sold)
          /\ Asked(r1.drink) # {} /\ Asked(r2.drink) # {}

\* the sales of bar s a run stored are the records of its feed newer than
\* the bar's date at the start of the run, each once
AllNewStored(h, s) ==
    LET f == h.feed0[s]
        new == {i \in DOMAIN f : IsNewer(f[i], h.dates0[s])}
    IN  /\ SoldOf(h, s) = {Normal(f[i], s) : i \in new}
        /\ Cardinality({j \in DOMAIN h.sold : h.sold[j].bar = s}) = Cardinality(new)
\* C15: after a run in which the feed file of one bar could not be read, the
\* sales of the other two bars newer than their stored dates are stored by
\* that run, each once.
C15_OtherBarsStillStored ==
    (pc = "idle" /\ hist # <<>> /\ hist[Cur].raisedBy = "feed")
    => \E unread \in Sources :
          \A s \in Sources \ {unread} : AllNewStored(hist[Cur], s)

\* C16: no step takes a row out of the global_sales table or changes one:
\* every row is in the table after the step as often as before it, so the
\* sales of earlier runs stay as they were stored.
C16_StoredSalesKept ==
    [][ \A row \in BagToSet(global_sales) :
            CopiesIn(row, global_sales') >= CopiesIn(row, global_sales) ]_vars
\* the second run has just added its sales to those of the first
C16_Witness ==
    /\ pc = "to_sql_stock" /\ Len(hist) = 2
    /\ hist[1].sold # <<>> /\ hist[2].sold # <<>>
    /\ \A row \in Range(hist[1].sold) : CopiesIn(row, global_sales) >= 1
    /\ \A row \in Range(hist[2].sold) : CopiesIn(row, global_sales) >= 1
    /\ Range(hist[1].sold) # Range(hist[2].sold)

\* C17: in every state, also while a run is rewriting last_update.txt and
\* after a run that was killed doing so, the file holds the lines of all
\* three keys, those it had before the run or the new ones; it is never
\* empty and never holds a part of them.
C17_FileNeverPartial ==
    wmFile.exists
    => /\ ParseOk(wmFile.text)
       /\ DOMAIN ReadDateDict(wmFile.text) = {NYC_date_max, LON_date_max, BUDA_date_max}
       /\ \/ hist = <<>>
          \/ wmFile = hist[Cur].wm0
          \/ \E ny, lon, buda \in {Str(d) : d \in Dates \cup {NaT}} :
                wmFile.text = WatermarkText(ny, lon, buda)

\* C18: after successful runs only, no two rows of the global_sales table
\* have the same saleID.
C18_SaleIDsUnique ==
    (pc = "idle" /\ AllRunsOk)
    => \A r1, r2 \in BagToSet(global_sales) :
          r1.saleID = r2.saleID => r1 = r2 /\ CopiesIn(r1, global_sales) = 1

\* C19: once lines 163-173 have written three date strings and read the
\* file again, date_dict has exactly the keys NYC_date_max, LON_date_max and
\* BUDA_date_max, and each has the string written for it, whole: the space
\* between date and time is part of the value, the newline is not.
C19_WriteReadRoundTrip ==
    pc = "concat"
    => /\ DOMAIN date_dict = {NYC_date_max, LON_date_max, BUDA_date_max}
       /\ date_dict[NYC_date_max] = ny_max_date
       /\ date_dict[LON_date_max] = london_max_date
       /\ date_dict[BUDA_date_max] = budapest_max_date
\* three different strings were written and read, one of them "NaT" and one
\* with a space in it
C19_Witness ==
    /\ pc = "concat"
    /\ ny_max_date # london_max_date /\ london_max_date # budapest_max_date
    /\ ny_max_date # budapest_max_date
    /\ london_max_date = NaTStr
    /\ IndexOf(budapest_max_date, SP) # 0
    /\ date_dict[BUDA_date_max] = budapest_max_date

\* the newest date of the records of feed f dated after w; NaT when there
\* is none
NewestAfter(f, w) ==
    LET new == {f[i].dateOfSale : i \in {j \in DOMAIN f : IsNewer(f[j], w)}}
    IN  IF new = {} THEN NaT ELSE CHOOSE d \in new : \A e \in new : e <= d
\* C20: the date a run writes for a bar is a function of that bar's feed and
\* of the date stored for that bar before the run, and of nothing else: it
\* is the newest date of the bar's feed after the bar's own stored date, and
\* it is written under the bar's own key.
C20_DatePerBar ==
    pc = "reread_dates"
    => \A now \in {StoredDates(wmFile)} : \A s \in Sources :
          now[s] = NewestAfter(feed[s], hist[Cur].dates0[s])
\* the dates have been written in a run where a bar would have got another
\* date had it been given another bar's stored date
C20_Witness ==
    /\ pc = "reread_dates"
    /\ \E s, t \in Sources :
          /\ hist[Cur].dates0[s] # hist[Cur].dates0[t]
          /\ NewestAfter(feed[t], hist[Cur].dates0[s])
                # NewestAfter(feed[t], hist[Cur].dates0[t])
          /\ Stored(wmFile, t) = NewestAfter(feed[t], hist[Cur].dates0[t])
          /\ Stored(wmFile, s) # Stored(wmFile, t)

====
